---- MODULE Spec2Model ----
(***************************************************************************)
(* Model of batch_rename_export_fbx.py: the "Prefix & Export FBX" operator *)
(* (invoke -> confirmation dialog -> execute), the rename rule add_prefix, *)
(* the sorted selection, the SelectionGuard and the export calls.          *)
(*                                                                         *)
(* Strings are sequences of one-character strings, so that split, join,    *)
(* rstrip, isupper, isdigit, the "03d" format and the comparison used by   *)
(* sorted() are computed and not assumed.  The host (object names,         *)
(* selection, active object, exporter) is the state the add-on reads and   *)
(* writes through bpy; an attribute assignment is modelled as the source   *)
(* writes it.                                                              *)
(***************************************************************************)
EXTENDS Integers, Sequences, FiniteSets, TLC

\* ------------------------------------------------------------------ bounds

\* Number of objects in the scene (the selection is any subset of them).
NumObjects == 2

Objects == 1..NumObjects

None == 0

\* ------------------------------------------------------------- characters

SEP == "_"

UpperChars == {"S", "T", "E"}

LowerChars == {"a", "b", "f", "o", "p", "r", "t", "x"}

DigitChars == {"0", "1", "2", "3", "4", "5", "6", "7", "8", "9"}

\* Code points, as Python compares strings.
Ord(c) ==
    CASE c = "." -> 46 [] c = "/" -> 47
      [] c = "0" -> 48 [] c = "1" -> 49 [] c = "2" -> 50 [] c = "3" -> 51
      [] c = "4" -> 52 [] c = "5" -> 53 [] c = "6" -> 54 [] c = "7" -> 55
      [] c = "8" -> 56 [] c = "9" -> 57
      [] c = "E" -> 69 [] c = "S" -> 83 [] c = "T" -> 84
      [] c = "_" -> 95
      [] c = "a" -> 97 [] c = "b" -> 98 [] c = "f" -> 102 [] c = "o" -> 111
      [] c = "p" -> 112 [] c = "r" -> 114 [] c = "t" -> 116 [] c = "x" -> 120

\* str.__lt__: lexicographic on code points, a proper prefix is smaller.
RECURSIVE StrLess(_, _)
StrLess(a, b) ==
    IF b = <<>> THEN FALSE
    ELSE IF a = <<>> THEN TRUE
    ELSE IF Head(a) = Head(b) THEN StrLess(Tail(a), Tail(b))
    ELSE Ord(Head(a)) < Ord(Head(b))

\* str.isupper(): at least one cased character and no lowercase one.
IsUpper(s) ==
    /\ \E i \in 1..Len(s) : s[i] \in UpperChars
    /\ \A i \in 1..Len(s) : s[i] \notin LowerChars

\* str.isdigit(): non-empty and every character a digit.
IsDigit(s) ==
    /\ Len(s) > 0
    /\ \A i \in 1..Len(s) : s[i] \in DigitChars

\* str.split(sep) for a one-character sep: always at least one token.
RECURSIVE Split(_, _)
Split(s, sep) ==
    IF \A i \in 1..Len(s) : s[i] # sep THEN <<s>>
    ELSE LET i == CHOOSE k \in 1..Len(s) :
                     /\ s[k] = sep
                     /\ \A j \in 1..(k - 1) : s[j] # sep
         IN  <<SubSeq(s, 1, i - 1)>> \o Split(SubSeq(s, i + 1, Len(s)), sep)

\* sep.join(tokens)
RECURSIVE Join(_, _)
Join(tokens, sep) ==
    IF tokens = <<>> THEN <<>>
    ELSE IF Len(tokens) = 1 THEN tokens[1]
    ELSE tokens[1] \o <<sep>> \o Join(Tail(tokens), sep)

\* str.rstrip(sep) for a one-character sep.
RECURSIVE RStrip(_, _)
RStrip(s, sep) ==
    IF s # <<>> /\ s[Len(s)] = sep THEN RStrip(SubSeq(s, 1, Len(s) - 1), sep)
    ELSE s

\* str.startswith
StartsWith(s, p) == Len(s) >= Len(p) /\ SubSeq(s, 1, Len(p)) = p

DigitChar(d) == <<"0", "1", "2", "3", "4", "5", "6", "7", "8", "9">>[d + 1]

RECURSIVE Decimal(_)
Decimal(n) == IF n < 10 THEN <<DigitChar(n)>>
              ELSE Decimal(n \div 10) \o <<DigitChar(n % 10)>>

RECURSIVE ZeroPad(_, _)
ZeroPad(s, width) == IF Len(s) >= width THEN s ELSE ZeroPad(<<"0">> \o s, width)

\* f"{i:03d}"
Format03d(i) == ZeroPad(Decimal(i), 3)

\* The two token strips shared by get_selection._key and add_prefix.
StripTokens(tokens) ==
    LET t1 == IF tokens # <<>> /\ IsUpper(tokens[1]) THEN Tail(tokens) ELSE tokens
    IN  IF t1 # <<>> /\ IsDigit(t1[1]) THEN Tail(t1) ELSE t1

\* ------------------------------------------------------------ path helpers

\* os.path.join(a, b) on POSIX: an absolute b replaces a.
OsPathJoin(a, b) ==
    IF StartsWith(b, <<"/">>) THEN b
    ELSE IF a = <<>> \/ a[Len(a)] = "/" THEN a \o b
    ELSE a \o <<"/">> \o b

\* os.path.dirname(p) on POSIX: the head up to the last "/", trailing slashes
\* dropped unless the head is all slashes.
RStripSlash(h) == RStrip(h, "/")

OsPathDirname(p) ==
    LET slashes == {i \in 1..Len(p) : p[i] = "/"}
    IN  IF slashes = {} THEN <<>>
        ELSE LET i    == CHOOSE k \in slashes : \A j \in slashes : j <= k
                 head == SubSeq(p, 1, i)
             IN  IF RStripSlash(head) = <<>> THEN head ELSE RStripSlash(head)

\* bpy.path.abspath(path): a "//" prefix is replaced by the .blend's directory.
BpyPathAbspath(path, blend_filepath) ==
    IF StartsWith(path, <<"/", "/">>)
    THEN OsPathJoin(OsPathDirname(blend_filepath), SubSeq(path, 3, Len(path)))
    ELSE path

\* Utilities.get_export_dir up to os.makedirs: raw = export_path or "//".
GetExportDir(export_path, blend_filepath) ==
    LET raw == IF export_path # <<>> THEN export_path ELSE <<"/", "/">>
    IN  BpyPathAbspath(raw, blend_filepath)

\* os.makedirs(abs_path, exist_ok=True) raises FileNotFoundError on "".
MakedirsRaises(abs_path) == abs_path = <<>>

FBX_EXT == <<".", "f", "b", "x">>

DEFAULT_FILENAME == <<"E", "x", "p", "o", "r", "t", ".", "f", "b", "x">>

\* ---------------------------------------------------------------- inputs

\* Object names for the operator runs: a plain name, a name a previous run
\* produced (prefix, index, base) and an all-caps name.
NamePool ==
    { <<"b">>,
      <<"S", "_", "1", "_", "a">>,
      <<"T">> }

PrefixPool == { <<"S", "_", "_">>, <<>> }

\* Object names and prefixes for the rename rule alone.
RenameNamePool ==
    NamePool \cup
    { <<"1", "_", "b">>,
      <<"T", "_", "1">>,
      <<"S", "1", "_", "b">>,
      <<"S", "a", "_", "2">>,
      <<"_", "a">>,
      <<"S", "_", "_", "a">> }

RenamePrefixPool == PrefixPool \cup { <<"S", "_">>, <<"t">> }

FilenamePool == { <<>>, <<"a", ".", "f", "b", "x">> }

ExportPathPool == { <<"/", "/">>, <<>>, <<"/", "o">> }

BlendFilepathPool == { <<>>, <<"/", "p", "/", "b">> }

\* ------------------------------------------------- Utilities (pure parts)

\* list(context.selected_objects): the selected objects in scene order.
RECURSIVE ListInSceneOrder(_, _)
ListInSceneOrder(sel, from) ==
    IF from > NumObjects THEN <<>>
    ELSE (IF from \in sel THEN <<from>> ELSE <<>>) \o ListInSceneOrder(sel, from + 1)

SelectedObjects(sel) == ListInSceneOrder(sel, 1)

\* get_selection._key: "_".join(tokens) or o.name
SortKey(n) ==
    LET joined == Join(StripTokens(Split(n, SEP)), SEP)
    IN  IF joined # <<>> THEN joined ELSE n

\* sorted(sel, key=_key) is stable: an element goes after every element whose
\* key is not greater than its own.
RECURSIVE InsertByKey(_, _, _)
InsertByKey(sorted, o, names) ==
    IF sorted = <<>> THEN <<o>>
    ELSE IF StrLess(SortKey(names[o]), SortKey(names[Head(sorted)]))
         THEN <<o>> \o sorted
         ELSE <<Head(sorted)>> \o InsertByKey(Tail(sorted), o, names)

RECURSIVE SortedByKey(_, _)
SortedByKey(objs, names) ==
    IF objs = <<>> THEN <<>>
    ELSE InsertByKey(SortedByKey(SubSeq(objs, 1, Len(objs) - 1), names),
                     objs[Len(objs)], names)

\* Utilities.get_selection
GetSelection(sel, names) == SortedByKey(SelectedObjects(sel), names)

\* add_prefix, lines 103-113: the base name of an old name.
BaseName(old, sep) == Join(StripTokens(Split(old, sep)), sep)

\* Mutant of NewName: the index counted from 0 (enumerate without start = 1).
NewNameZeroBased(old, prefix, add_index, i, sep) ==
    LET base_name == BaseName(old, sep)
        parts == <<prefix>>
                 \o (IF add_index THEN <<Format03d(i - 1)>> ELSE <<>>)
                 \o (IF base_name # <<>> THEN <<base_name>> ELSE <<>>)
    IN  Join(parts, sep)

\* add_prefix, lines 114-122: the name given to the i-th object.
NewName(old, prefix, add_index, i, sep) ==
    LET base_name == BaseName(old, sep)
        parts == <<prefix>>
                 \o (IF add_index THEN <<Format03d(i)>> ELSE <<>>)
                 \o (IF base_name # <<>> THEN <<base_name>> ELSE <<>>)
    IN  Join(parts, sep)

\* add_prefix, the loop from position i on: names after it, and the count.
RECURSIVE AddPrefixLoop(_, _, _, _, _, _, _)
AddPrefixLoop(objects, i, names, count, prefix, add_index, sep) ==
    IF i > Len(objects) THEN [name |-> names, count |-> count]
    ELSE AddPrefixLoop(objects, i + 1,
             [names EXCEPT ![objects[i]] =
                 NewName(names[objects[i]], prefix, add_index, i, sep)],
             count + 1, prefix, add_index, sep)

\* Utilities.add_prefix(objects, prefix, add_index, sep="_")
AddPrefix(objects, names, prefix, add_index) ==
    AddPrefixLoop(objects, 1, names, 0, RStrip(prefix, SEP), add_index, SEP)

\* --------------------------------------------------------- SelectionGuard

Range(seq) == {seq[i] : i \in 1..Len(seq)}

\* bpy.ops.object.select_all(action='DESELECT')
DeselectAll(sel) == {}

\* SelectionGuard.set(objs): select each, make the first one active.
GuardSet(sel, act, objs) ==
    [selected |-> sel \cup Range(objs),
     active   |-> IF objs # <<>> THEN objs[1] ELSE act]

\* Mutant of GuardExit: the active object is not restored.
GuardExitKeepingActive(sel, act, p_sel, p_active) ==
    [selected |-> DeselectAll(sel) \cup Range(p_sel),
     active   |-> act]

\* SelectionGuard.__exit__: deselect all, reselect prev_sel, restore active.
GuardExit(sel, act, p_sel, p_active) ==
    [selected |-> DeselectAll(sel) \cup Range(p_sel),
     active   |-> p_active]

\* ------------------------------------------------------------------ state

VARIABLES
    name,               \* host: obj.name of every object
    selected,           \* host: the set of selected objects
    active,             \* host: context.view_layer.objects.active, or None
    blend_filepath,     \* host: bpy.data.filepath ("" while unsaved)
    ta_prefix,          \* scene.ta_prefix
    ta_add_index,       \* scene.ta_add_index
    ta_per_object,      \* scene.ta_per_object
    ta_export_path,     \* scene.ta_export_path
    ta_export_filename, \* scene.ta_export_filename
    pc,                 \* position of the operator
    origin,             \* how the run was started: "none", "invoke", "direct"
    dialog,             \* confirmation dialog: "none", "shown", "accepted", "cancelled"
    confirm_count,      \* the count written into _confirm_text (0: no text)
    result,             \* the operator's return value
    reports,            \* self.report calls, in order
    checked,            \* the early checks of execute evaluated so far, in order
    out_dir,            \* execute: out_dir
    targets,            \* execute: targets
    prefixed,           \* execute: prefixed
    exported,           \* execute: exported
    loop_i,             \* execute: iterations of the export loop started
    raised,             \* execute: an export call raised RuntimeError
    prev_sel,           \* SelectionGuard.prev_sel
    prev_active,        \* SelectionGuard.prev_active
    exportCalls,        \* history: every bpy.ops.export_scene.fbx call
    nameWrites,         \* history: number of assignments to obj.name
    oldName,            \* history: the names before the run
    oldSelected,        \* history: the selected set before the run
    guardCreated        \* history: <<>>, or the host selection and active
                        \* object at the moment the guard was created

host == <<name, selected, active, blend_filepath>>

settings == <<ta_prefix, ta_add_index, ta_per_object, ta_export_path,
              ta_export_filename>>

locals == <<out_dir, targets, prefixed, exported, loop_i, raised>>

guard == <<prev_sel, prev_active, guardCreated>>

vars == <<name, selected, active, blend_filepath, ta_prefix, ta_add_index,
          ta_per_object, ta_export_path, ta_export_filename, pc, origin,
          dialog, confirm_count, result, reports, checked, out_dir, targets,
          prefixed, exported, loop_i, raised, prev_sel, prev_active,
          exportCalls, nameWrites, oldName, oldSelected, guardCreated>>

Report(level, text) == [level |-> level, text |-> text]

\* Object names are unique in the host.
UniqueNames(pool) ==
    {f \in [Objects -> pool] : \A a, b \in Objects : a # b => f[a] # f[b]}

\* The operator has not run yet.
InitOperator ==
    /\ pc = "idle"
    /\ origin = "none"
    /\ checked = <<>>

InitRun ==
    /\ dialog = "none"
    /\ confirm_count = 0
    /\ result = "NONE"
    /\ reports = <<>>
    /\ out_dir = <<>>
    /\ targets = <<>>
    /\ prefixed = 0
    /\ exported = 0
    /\ loop_i = 0
    /\ raised = FALSE
    /\ prev_sel = <<>>
    /\ prev_active = None
    /\ exportCalls = <<>>
    /\ nameWrites = 0
    /\ oldName = name
    /\ oldSelected = selected
    /\ guardCreated = <<>>

Init ==
    /\ name \in UniqueNames(NamePool)
    /\ selected \in SUBSET Objects
    /\ active \in Objects \cup {None}
    /\ blend_filepath \in BlendFilepathPool
    /\ ta_prefix \in PrefixPool
    /\ ta_add_index \in BOOLEAN
    /\ ta_per_object \in BOOLEAN
    /\ ta_export_path \in ExportPathPool
    /\ ta_export_filename \in FilenamePool
    /\ InitOperator
    /\ InitRun

\* execute, called directly, has passed its first three checks: the states
\* from which get_selection and add_prefix run, over the wider name pool.
InitRename ==
    /\ name \in UniqueNames(RenameNamePool)
    /\ selected \in SUBSET Objects
    /\ active = None
    /\ blend_filepath = <<"/", "p", "/", "b">>
    /\ ta_prefix \in RenamePrefixPool
    /\ ta_add_index \in BOOLEAN
    /\ ta_per_object = TRUE
    /\ ta_export_path = <<"/", "/">>
    /\ ta_export_filename = DEFAULT_FILENAME
    /\ pc = "exec_targets"
    /\ origin = "direct"
    /\ checked = <<"mode", "fbx", "path">>
    /\ InitRun

history == <<exportCalls, nameWrites, oldName, oldSelected>>

\* ----------------------------------------------------------------- invoke

\* Mutant of CheckOrder: the exporter is looked up before the mode is ensured.
CheckOrderFbxFirst == <<"fbx", "mode", "path", "selection">>

\* The order of the four early checks of execute, lines 209-237.
CheckOrder == <<"mode", "fbx", "path", "selection">>

PcOfCheck(c) ==
    CASE c = "mode" -> "exec_mode"
      [] c = "fbx" -> "exec_fbx"
      [] c = "path" -> "exec_path"
      [] c = "selection" -> "exec_targets"

\* Where execute goes after its k-th check passed.
PcAfterCheck(k) ==
    IF k < Len(CheckOrder) THEN PcOfCheck(CheckOrder[k + 1]) ELSE "exec_rename"

\* Mutant of FileCount: the per-object switch is ignored.
FileCountIgnoringMode(t, per_object) == Len(t)

\* invoke, line 187: how many files will be generated
FileCount(t, per_object) == IF per_object THEN Len(t) ELSE 1

\* Mutant of Invoke: execute is entered without the confirmation dialog.
InvokeWithoutDialog ==
    /\ pc = "idle"
    /\ origin' = "invoke"
    /\ LET t == GetSelection(selected, name)
       IN  IF t = <<>>
           THEN /\ reports' = Append(reports, Report("WARNING", "No objects selected."))
                /\ result' = "CANCELLED"
                /\ pc' = "done"
                /\ UNCHANGED confirm_count
           ELSE /\ confirm_count' = FileCount(t, ta_per_object)
                /\ pc' = PcOfCheck(CheckOrder[1])
                /\ UNCHANGED <<result, reports>>
    /\ UNCHANGED <<host, settings, locals, guard, history, checked, dialog>>

\* TA_OT_BatchRenameExportFBX.invoke
Invoke ==
    /\ pc = "idle"
    /\ origin' = "invoke"
    /\ LET t == GetSelection(selected, name)
       IN  IF t = <<>>
           THEN /\ reports' = Append(reports, Report("WARNING", "No objects selected."))
                /\ result' = "CANCELLED"
                /\ pc' = "done"
                /\ UNCHANGED <<dialog, confirm_count>>
           ELSE /\ confirm_count' = FileCount(t, ta_per_object)
                /\ dialog' = "shown"
                /\ result' = "RUNNING_MODAL"
                /\ pc' = "dialog"
                /\ UNCHANGED reports
    /\ UNCHANGED <<host, settings, locals, guard, history, checked>>

\* The user presses OK in the dialog: the host calls execute.
DialogOK ==
    /\ pc = "dialog"
    /\ dialog' = "accepted"
    /\ pc' = PcOfCheck(CheckOrder[1])
    /\ UNCHANGED <<host, settings, locals, guard, history, checked, origin,
                   confirm_count, result, reports>>

\* The user dismisses the dialog: execute is never called.
DialogCancel ==
    /\ pc = "dialog"
    /\ dialog' = "cancelled"
    /\ result' = "CANCELLED"
    /\ pc' = "done"
    /\ UNCHANGED <<host, settings, locals, guard, history, checked, origin,
                   confirm_count, reports>>

\* execute called without invoke (bpy.ops... from a script, EXEC_DEFAULT).
ExecuteDirect ==
    /\ pc = "idle"
    /\ origin' = "direct"
    /\ pc' = PcOfCheck(CheckOrder[1])
    /\ UNCHANGED <<host, settings, locals, guard, history, checked, dialog,
                   confirm_count, result, reports>>

\* ---------------------------------------------------------------- execute

\* Utilities.ensure_object_mode: mode is active.mode as the host reports it,
\* response what poll()/mode_set() then do: "switched", "stays" (poll() false,
\* or the mode did not change) or "raises".
EnsureObjectMode(act, mode, response) ==
    LET m == IF act # None THEN mode ELSE "OBJECT"
    IN  IF m = "OBJECT" THEN [ok |-> TRUE, reports |-> <<>>]
        ELSE IF response = "raises"
        THEN [ok |-> FALSE,
              reports |-> <<Report("ERROR", "Could not switch to Object Mode")>>]
        ELSE IF response = "stays"
        THEN [ok |-> FALSE,
              reports |-> <<Report("ERROR", "Please switch to Object Mode before exporting.")>>]
        ELSE [ok |-> TRUE, reports |-> <<>>]

\* return {'CANCELLED'} after the given reports
Cancelled(reps) ==
    /\ reports' = reports \o reps
    /\ result' = "CANCELLED"
    /\ pc' = "done"

\* ### 1 ### lines 210-212
CheckObjectMode ==
    /\ pc = PcOfCheck("mode")
    /\ checked' = Append(checked, "mode")
    /\ \E mode \in {"OBJECT", "EDIT"}, response \in {"switched", "stays", "raises"} :
         LET r == EnsureObjectMode(active, mode, response)
         IN  IF ~r.ok
             THEN Cancelled(r.reports)
             ELSE /\ pc' = PcAfterCheck(Len(checked'))
                  /\ UNCHANGED <<result, reports>>
    /\ UNCHANGED <<host, settings, locals, guard, history, origin, dialog,
                   confirm_count>>

\* ### 2 ### lines 215-218; has_fbx is hasattr(bpy.ops.export_scene, "fbx")
CheckFbxAvailable ==
    /\ pc = PcOfCheck("fbx")
    /\ checked' = Append(checked, "fbx")
    /\ \E has_fbx \in BOOLEAN :
         IF ~has_fbx
         THEN Cancelled(<<Report("ERROR", "FBX exporter not available.")>>)
         ELSE /\ pc' = PcAfterCheck(Len(checked'))
              /\ UNCHANGED <<result, reports>>
    /\ UNCHANGED <<host, settings, locals, guard, history, origin, dialog,
                   confirm_count>>

\* line 223
RelativeInUnsaved(export_path, filepath) ==
    StartsWith(export_path, <<"/", "/">>) /\ filepath = <<>>

\* ### 3 ### lines 223-227
CheckExportPath ==
    /\ pc = PcOfCheck("path")
    /\ checked' = Append(checked, "path")
    /\ IF RelativeInUnsaved(ta_export_path, blend_filepath)
       THEN Cancelled(<<Report("WARNING", "Save your .blend, then run export again.")>>)
       ELSE /\ pc' = PcAfterCheck(Len(checked'))
            /\ UNCHANGED <<result, reports>>
    /\ UNCHANGED <<host, settings, locals, guard, history, origin, dialog,
                   confirm_count>>

\* lines 229-237: out_dir, targets and ### 4 ###.  os.makedirs("") raises
\* FileNotFoundError, which execute does not catch.
CheckTargets ==
    /\ pc = PcOfCheck("selection")
    /\ LET d == GetExportDir(ta_export_path, blend_filepath)
           t == GetSelection(selected, name)
       IN  IF MakedirsRaises(d)
           THEN /\ result' = "EXCEPTION"
                /\ pc' = "done"
                /\ UNCHANGED <<out_dir, targets, checked, reports>>
           ELSE /\ out_dir' = d
                /\ targets' = t
                /\ checked' = Append(checked, "selection")
                /\ IF t = <<>>
                   THEN Cancelled(<<Report("WARNING", "No objects selected.")>>)
                   ELSE /\ pc' = PcAfterCheck(Len(checked'))
                        /\ UNCHANGED <<result, reports>>
    /\ UNCHANGED <<host, settings, guard, history, origin, dialog,
                   confirm_count, prefixed, exported, loop_i, raised>>

\* line 239: prefixed = Utilities.add_prefix(targets, ...)
RenameTargets ==
    /\ pc = "exec_rename"
    /\ LET r == AddPrefix(targets, name, ta_prefix, ta_add_index)
       IN  /\ name' = r.name
           /\ prefixed' = r.count
           /\ nameWrites' = nameWrites + Len(targets)
    /\ pc' = "exec_guard"
    /\ UNCHANGED <<selected, active, blend_filepath, settings, guard, origin,
                   dialog, confirm_count, result, reports, checked, out_dir,
                   targets, exported, loop_i, raised, exportCalls, oldName,
                   oldSelected>>

\* lines 243-245 / 256: SelectionGuard(context), then __enter__
EnterGuard ==
    /\ pc = "exec_guard"
    /\ prev_active' = active
    /\ prev_sel' = SelectedObjects(selected)
    /\ guardCreated' = <<[selected |-> selected, active |-> active]>>
    /\ selected' = DeselectAll(selected)
    /\ exported' = 0
    /\ pc' = "exec_export"
    /\ UNCHANGED <<name, active, blend_filepath, settings, history, origin,
                   dialog, confirm_count, result, reports, checked, out_dir,
                   targets, prefixed, loop_i, raised>>

\* Utilities.export_fbx(out_path, ...): the call exports the current selection
\* and either returns or raises RuntimeError.
ExportCall(out_path, sel, act, ok) ==
    [filepath |-> out_path, selection |-> sel, active |-> act, ok |-> ok]

\* line 248
PerObjectPath(dir, obj_name) == OsPathJoin(dir, obj_name \o FBX_EXT)

\* Mutant of CombinedPath: the filename setting is ignored.
CombinedPathDefaultOnly(dir, filename) == OsPathJoin(dir, DEFAULT_FILENAME)

\* line 258
CombinedPath(dir, filename) ==
    OsPathJoin(dir, IF filename # <<>> THEN filename ELSE DEFAULT_FILENAME)

\* Mutant of ExportedAfter: the export is counted before the call is made.
ExportedAfterCountingFailures(n, ok) == n + 1

\* line 250: exported += 1 runs only when the export call returned
ExportedAfter(n, ok) == IF ok THEN n + 1 ELSE n

\* lines 246-250: one iteration of the per-object loop
ExportNextObject ==
    /\ pc = "exec_export"
    /\ ta_per_object
    /\ ~raised
    /\ loop_i < Len(targets)
    /\ LET obj == targets[loop_i + 1]
           s   == GuardSet(selected, active, <<obj>>)
       IN  /\ selected' = s.selected
           /\ active' = s.active
           /\ loop_i' = loop_i + 1
           /\ \E ok \in BOOLEAN :
                /\ exportCalls' = Append(exportCalls,
                       ExportCall(PerObjectPath(out_dir, name[obj]),
                                  s.selected, s.active, ok))
                /\ exported' = ExportedAfter(exported, ok)
                /\ raised' = ~ok
    /\ UNCHANGED <<name, blend_filepath, settings, guard, origin, dialog,
                   confirm_count, result, reports, checked, out_dir, targets,
                   prefixed, pc, nameWrites, oldName, oldSelected>>

\* lines 257-259: the single combined export
ExportCombined ==
    /\ pc = "exec_export"
    /\ ~ta_per_object
    /\ ~raised
    /\ loop_i = 0
    /\ LET s == GuardSet(selected, active, targets)
       IN  /\ selected' = s.selected
           /\ active' = s.active
           /\ loop_i' = 1
           /\ \E ok \in BOOLEAN :
                /\ exportCalls' = Append(exportCalls,
                       ExportCall(CombinedPath(out_dir, ta_export_filename),
                                  s.selected, s.active, ok))
                /\ raised' = ~ok
    /\ UNCHANGED <<name, blend_filepath, settings, guard, origin, dialog,
                   confirm_count, result, reports, checked, out_dir, targets,
                   prefixed, exported, pc, nameWrites, oldName, oldSelected>>

\* The with block is left: normally after the last export, or by the exception.
LeavingGuard ==
    \/ raised
    \/ ta_per_object /\ loop_i = Len(targets)
    \/ ~ta_per_object /\ loop_i = 1

\* SelectionGuard.__exit__, then lines 252-253 / 261 or 263-266, then 268
ExitGuard ==
    /\ pc = "exec_export"
    /\ LeavingGuard
    /\ LET g == GuardExit(selected, active, prev_sel, prev_active)
       IN  /\ selected' = g.selected
           /\ active' = g.active
    /\ IF raised
       THEN /\ reports' = Append(reports, Report("ERROR", "Export failed"))
            /\ result' = "CANCELLED"
       ELSE /\ reports' = Append(reports, Report("INFO", "Renamed; exported"))
            /\ result' = "FINISHED"
    /\ pc' = "done"
    /\ UNCHANGED <<name, blend_filepath, settings, guard, history, origin,
                   dialog, confirm_count, checked, locals>>

Next ==
    \/ Invoke
    \/ DialogOK
    \/ DialogCancel
    \/ ExecuteDirect
    \/ CheckObjectMode
    \/ CheckFbxAvailable
    \/ CheckExportPath
    \/ CheckTargets
    \/ RenameTargets
    \/ EnterGuard
    \/ ExportNextObject
    \/ ExportCombined
    \/ ExitGuard

Spec == Init /\ [][Next]_vars

\* get_selection and add_prefix alone (lines 231-239 of execute).
NextRename ==
    \/ CheckTargets
    \/ RenameTargets

SpecRename == InitRename /\ [][NextRename]_vars

\* ================================================================ claims

Last(seq) == seq[Len(seq)]

IsPrefixOf(a, b) == Len(a) <= Len(b) /\ SubSeq(b, 1, Len(a)) = a

\* A directory followed by exactly one "/".
DirSlash(dir) == IF dir # <<>> /\ Last(dir) = "/" THEN dir ELSE dir \o <<"/">>

\* The 1-based position of o in the selection sorted by cleaned base name:
\* one more than the number of selected objects that sort before it (a smaller
\* key, or the same key and earlier in the scene).
RankInSelection(o) ==
    1 + Cardinality({q \in oldSelected :
            \/ StrLess(SortKey(oldName[q]), SortKey(oldName[o]))
            \/ SortKey(oldName[q]) = SortKey(oldName[o]) /\ q < o})

\* The old name without a leading all-uppercase token and then without a
\* leading all-digit token.
CleanedBase(old) ==
    LET toks == Split(old, "_")
        nU   == IF IsUpper(toks[1]) THEN 1 ELSE 0
        nD   == IF Len(toks) > nU /\ IsDigit(toks[nU + 1]) THEN 1 ELSE 0
    IN  Join(SubSeq(toks, nU + nD + 1, Len(toks)), "_")

\* prefix [_ 00k] [_ base], for an index k below 10.
RenamedAs(old, k) ==
    RStrip(ta_prefix, "_")
    \o (IF ta_add_index THEN <<"_", "0", "0", DigitChar(k)>> ELSE <<>>)
    \o (IF CleanedBase(old) # <<>> THEN <<"_">> \o CleanedBase(old) ELSE <<>>)

Renamed == nameWrites > 0

\* C1: in a run started from invoke that ends FINISHED, the file count shown
\* in the confirmation dialog equals the number of FBX export calls made.
C1_FileCountMatchesExports ==
    (origin = "invoke" /\ result = "FINISHED")
        => confirm_count = Len(exportCalls)

C1_Witness ==
    /\ origin = "invoke"
    /\ result = "FINISHED"
    /\ ta_per_object
    /\ confirm_count = 2
    /\ Len(exportCalls) = 2

\* C2 (as claimed): in per-object mode every target gets exactly one export
\* call, in sorted-selection order, to <export dir>/<new name>.fbx, and at each
\* export call the selected set is exactly that one object.
C2_OneObjectPerExport ==
    ta_per_object =>
        /\ \A k \in 1..Len(exportCalls) :
             LET o == targets[k]
             IN  /\ RankInSelection(o) = k
                 /\ exportCalls[k].filepath = DirSlash(out_dir) \o name[o] \o FBX_EXT
                 /\ exportCalls[k].selection = {o}
        /\ result = "FINISHED" => Len(exportCalls) = Cardinality(oldSelected)

\* C3: once execute has entered the SelectionGuard and left it, by success or
\* by an export error, the selected set and the active object are what they
\* were when the guard was created.
C3_SelectionRestored ==
    (pc = "done" /\ guardCreated # <<>>)
        => /\ selected = guardCreated[1].selected
           /\ active = guardCreated[1].active

C3_Witness ==
    /\ pc = "done"
    /\ guardCreated # <<>>
    /\ raised
    /\ Len(exportCalls) = 2
    /\ guardCreated[1].active # Last(exportCalls).active
    /\ guardCreated[1].selected # {}

\* C4: after add_prefix every target is named prefix (trailing separators
\* removed), then the 3-digit index of its 1-based position in the sorted
\* selection when add_index is on, then its base name when non-empty, joined
\* by "_"; the positions are 1..n, each once; the count is the number of objects.
C4_AddPrefixNames ==
    Renamed =>
        /\ \A o \in oldSelected : name[o] = RenamedAs(oldName[o], RankInSelection(o))
        /\ \A o \in Objects \ oldSelected : name[o] = oldName[o]
        /\ {RankInSelection(o) : o \in oldSelected} = 1..Cardinality(oldSelected)
        /\ \A k \in 1..Len(targets) : RankInSelection(targets[k]) = k
        /\ prefixed = Cardinality(oldSelected)

C4_Witness ==
    /\ Renamed
    /\ ta_add_index
    /\ ta_prefix # <<>>
    /\ Len(targets) = 2
    /\ targets[1] > targets[2]
    /\ oldName[targets[1]] = <<"S", "_", "1", "_", "a">>
    /\ name[targets[1]] = <<"S", "_", "0", "0", "1", "_", "a">>
    /\ name[targets[2]] = <<"S", "_", "0", "0", "2", "_", "b">>

\* C5: in a run started from invoke nothing of execute happens (no check, no
\* rename, no export call) unless the dialog was shown and accepted; and
\* invoke with an empty selection returns CANCELLED with a warning and shows
\* no dialog.
C5_ConfirmThenExecute ==
    origin = "invoke" =>
        /\ (pc \notin {"dialog", "done"} \/ checked # <<>> \/ Renamed
              \/ exportCalls # <<>> \/ result \in {"FINISHED", "EXCEPTION"})
             => dialog = "accepted"
        /\ dialog # "none" => oldSelected # {}
        /\ oldSelected = {} =>
             /\ pc = "done"
             /\ result = "CANCELLED"
             /\ reports = <<Report("WARNING", "No objects selected.")>>
             /\ dialog = "none"
             /\ confirm_count = 0

C5_Witness ==
    /\ origin = "invoke"
    /\ dialog = "accepted"
    /\ Renamed
    /\ exportCalls # <<>>
    /\ result = "FINISHED"

\* C6: with per-object export off, a run that reaches the export makes exactly
\* one export call, with all targets selected, to <export dir>/<filename>
\* ("Export.fbx" for an empty filename); with per-object export on, the calls
\* and their paths are fixed by the export dir and the object names alone.
C6_FilenameOnlyForCombined ==
    /\ (~ta_per_object /\ pc = "done" /\ Renamed) =>
         /\ Len(exportCalls) = 1
         /\ exportCalls[1].selection = oldSelected
         /\ exportCalls[1].filepath =
              DirSlash(out_dir) \o
                (IF ta_export_filename = <<>>
                 THEN <<"E", "x", "p", "o", "r", "t", ".", "f", "b", "x">>
                 ELSE ta_export_filename)
    /\ ~ta_per_object => Len(exportCalls) <= 1
    /\ ta_per_object =>
         /\ Len(exportCalls) <= Cardinality(oldSelected)
         /\ (pc = "done" /\ Renamed /\ ~raised)
               => Len(exportCalls) = Cardinality(oldSelected)
         /\ \A k \in 1..Len(exportCalls) :
              /\ exportCalls[k].filepath =
                   DirSlash(out_dir) \o name[targets[k]] \o <<".", "f", "b", "x">>
              /\ exportCalls[k].selection = {targets[j] : j \in 1..k}

C6_Witness ==
    /\ ~ta_per_object
    /\ pc = "done"
    /\ result = "FINISHED"
    /\ Cardinality(oldSelected) = 2
    /\ ta_export_filename = <<>>
    /\ out_dir = <<"/", "o">>
    /\ exportCalls[1].filepath =
         <<"/", "o", "/", "E", "x", "p", "o", "r", "t", ".", "f", "b", "x">>

EarlyReports ==
    [mode |-> {Report("ERROR", "Could not switch to Object Mode"),
               Report("ERROR", "Please switch to Object Mode before exporting.")},
     fbx |-> {Report("ERROR", "FBX exporter not available.")},
     path |-> {Report("WARNING", "Save your .blend, then run export again.")},
     selection |-> {Report("WARNING", "No objects selected.")}]

C8_ExportFailure ==
    raised =>
        LET k == Len(exportCalls)
        IN  /\ k >= 1
            /\ ~exportCalls[k].ok
            /\ \A j \in 1..(k - 1) : exportCalls[j].ok
            /\ ta_per_object => exported = k - 1
            /\ result \in {"NONE", "RUNNING_MODAL", "CANCELLED"}
            /\ pc \in {"exec_export", "done"}
            /\ pc = "done" =>
                 /\ result = "CANCELLED"
                 /\ Last(reports) = Report("ERROR", "Export failed")
            /\ Renamed
            /\ \A o \in oldSelected :
                 name[o] = RenamedAs(oldName[o], RankInSelection(o))

C8_Witness ==
    /\ raised
    /\ pc = "done"
    /\ ta_per_object
    /\ Cardinality(oldSelected) = 2
    /\ Len(exportCalls) = 2
    /\ exported = 1
    /\ name # oldName

====
